---- MODULE Spec2Model ----
(***************************************************************************)
(* A model of AuroraPlayer's playback-order engine, src/src/playlist.py.   *)
(* The Playlist object's five fields are the state; every public method    *)
(* is one action.  Each method is first written as an operator from the    *)
(* object (a record of its fields) and the method's arguments to the       *)
(* object after the call (and the returned value), following the method's  *)
(* control flow branch by branch.  random.shuffle is a nondeterministic    *)
(* choice of a permutation, passed to the operators as the argument p.     *)
(* Python lists are 0-based: tracks[i] of the code is tracks[i+1] here.    *)
(*                                                                         *)
(* The Player of src/src/player.py is modelled around it: its transport    *)
(* flags, the path it holds as loaded and the state of the mixer's music   *)
(* stream.  What a load does (succeed or raise pygame.error) is drawn for  *)
(* each load.  Spec is the Playlist alone, PlayerSpec the Player with its  *)
(* playlist, StaleSpec the Playlist started with the shuffle flag on and   *)
(* no permutation, LoopSpec the Playlist under a caller that ends up       *)
(* calling next_track() forever.                                           *)
(***************************************************************************)
EXTENDS Integers, Sequences, FiniteSets, TLC

\* ------------------------------------------------------------- bounds
\* Number of distinct track identifiers the callers may pass.
NumIds == 2

\* The identifiers: the first is the empty string, which Python treats as
\* false in a condition (remove_track line 45 tests the held path that way).
IdNames == <<"", "a.mp3", "b.mp3", "c.mp3", "d.mp3", "e.mp3">>
Ids == {IdNames[i] : i \in 1..NumIds}

\* Python's None (no identifier is equal to it).
None == "None"

\* The values set_repeat_mode accepts, and one it does not.
Modes == {"none", "one", "all"}
ModeInputs == Modes \cup {"bogus"}

\* Truth value of a str-or-None in a Python condition.
Truthy(x) == x # None /\ x # ""

\* ------------------------------------------------------ list helpers
Contains(list, x) == \E i \in 1..Len(list) : list[i] = x

\* list.index(x): the 0-based position of the first x (x is in the list).
index(list, x) ==
  CHOOSE i \in 0..(Len(list) - 1) :
    /\ list[i + 1] = x
    /\ \A j \in 0..(i - 1) : list[j + 1] # x

\* list.pop(idx) with a 0-based idx: the list without that element.
pop(list, idx) ==
  [i \in 1..(Len(list) - 1) |-> IF i <= idx THEN list[i] ELSE list[i + 1]]

\* list(range(n))
range(n) == [i \in 1..n |-> i - 1]

\* The permutations of 1..n: the outcomes random.shuffle can draw.
PermsOf ==
  [n \in 0..NumIds |->
     {p \in [1..n -> 1..n] : \A i, j \in 1..n : p[i] = p[j] => i = j}]

Perms(n) == PermsOf[n]

IdPerm(n) == [i \in 1..n |-> i]

\* A plausible bug: the shuffle loses one element and doubles another.
random_shuffle_dup(list, p) ==
  [i \in 1..Len(list) |-> IF i = 1 THEN list[p[i]] ELSE list[p[1]]]

\* random.shuffle(list) drawing the arrangement p: position i receives the
\* element that was at position p[i].
random_shuffle(list, p) == [i \in 1..Len(list) |-> list[p[i]]]

\* ------------------------------------------------------------- state
VARIABLES
  tracks,               \* self.tracks
  current_track_index,  \* self.current_track_index
  shuffle_mode,         \* self.shuffle_mode
  repeat_mode,          \* self.repeat_mode
  shuffled_indices,     \* self.shuffled_indices
  last,                 \* history: the last call, its argument, its result
                        \*          and the object before it
  since_on,             \* history: what happened since shuffle was last
                        \*          turned on by a toggle_shuffle call
  lap,                  \* history: what next_track() has returned since it
                        \*          last wrapped forward under repeat 'all'
  is_playing,           \* Player.is_playing
  is_paused,            \* Player.is_paused
  current_position,     \* Player.current_position
  current_track_loaded_path,  \* Player.current_track_loaded_path
  mixer,                \* pygame.mixer.music: "idle", "playing" or "paused"
  plast,                \* history: the last play, next_track or prev_track
                        \*          call of the Player, the transport flags
                        \*          before it, what the playlist returned to
                        \*          it and the mixer commands it issued
  run                   \* history: the unbroken run of next_track() calls
                        \*          under repeat 'all' in progress, with the
                        \*          values the latest calls of it returned

vars == <<tracks, current_track_index, shuffle_mode, repeat_mode,
          shuffled_indices, last, since_on, lap,
          is_playing, is_paused, current_position,
          current_track_loaded_path, mixer, plast, run>>

\* The variables of the Player around its playlist.
player_vars == <<is_playing, is_paused, current_position,
                 current_track_loaded_path, mixer,
                 plast>>

\* The histories of the Playlist calls.
playlist_history == <<last, since_on, lap, run>>

\* The Playlist object as a record.
Self ==
  [tracks |-> tracks,
   current_track_index |-> current_track_index,
   shuffle_mode |-> shuffle_mode,
   repeat_mode |-> repeat_mode,
   shuffled_indices |-> shuffled_indices]

\* Playlist.__init__
Playlist_init ==
  [tracks |-> <<>>,
   current_track_index |-> -1,
   shuffle_mode |-> FALSE,
   repeat_mode |-> "none",
   shuffled_indices |-> <<>>]

\* ---------------------------------------------------- toggle_shuffle
\* A plausible bug: turning shuffle on keeps the cursor where it was.
toggle_shuffle_on_keep_cursor(s, p) ==
  IF s.tracks = <<>>
  THEN [s EXCEPT !.shuffle_mode = FALSE]
  ELSE [s EXCEPT !.shuffle_mode = TRUE,
                 !.shuffled_indices = random_shuffle(range(Len(s.tracks)), p)]

\* A variant without the empty-queue guard of lines 87-89: the flag stays on
\* over an empty queue and an empty permutation.
toggle_shuffle_on_empty(s, p) ==
  [s EXCEPT !.shuffle_mode = TRUE,
            !.shuffled_indices = random_shuffle(range(Len(s.tracks)), p),
            !.current_track_index = IF s.tracks = <<>> THEN -1 ELSE 0]

\* toggle_shuffle, the branch taken when the flag becomes True (lines 86-102).
toggle_shuffle_on(s, p) ==
  IF s.tracks = <<>>
  THEN [s EXCEPT !.shuffle_mode = FALSE]
  ELSE [s EXCEPT !.shuffle_mode = TRUE,
                 !.shuffled_indices = random_shuffle(range(Len(s.tracks)), p),
                 !.current_track_index = 0]

\* A plausible bug: turning shuffle off leaves an unset cursor unset.
toggle_shuffle_off_keep_unset(s) ==
  LET c == s.current_track_index IN
  IF s.tracks = <<>>
  THEN [s EXCEPT !.shuffle_mode = FALSE,
                 !.current_track_index = -1,
                 !.shuffled_indices = <<>>]
  ELSE [s EXCEPT !.shuffle_mode = FALSE,
                 !.current_track_index =
                    IF 0 <= c /\ c < Len(s.shuffled_indices)
                    THEN s.shuffled_indices[c + 1] ELSE -1,
                 !.shuffled_indices = <<>>]

\* A plausible bug: turning shuffle off keeps the permutation.
toggle_shuffle_off_keep_perm(s) ==
  LET c == s.current_track_index IN
  IF s.tracks = <<>>
  THEN [s EXCEPT !.shuffle_mode = FALSE,
                 !.current_track_index = -1,
                 !.shuffled_indices = <<>>]
  ELSE [s EXCEPT !.shuffle_mode = FALSE,
                 !.current_track_index =
                    IF 0 <= c /\ c < Len(s.shuffled_indices)
                    THEN s.shuffled_indices[c + 1] ELSE 0]

\* A plausible bug: turning shuffle off does not resolve the cursor through
\* the permutation, it keeps the permutation position as the queue index.
toggle_shuffle_off_no_resolve(s) ==
  IF s.tracks = <<>>
  THEN [s EXCEPT !.shuffle_mode = FALSE,
                 !.current_track_index = -1,
                 !.shuffled_indices = <<>>]
  ELSE [s EXCEPT !.shuffle_mode = FALSE,
                 !.current_track_index =
                    IF s.current_track_index < 0 THEN 0
                    ELSE s.current_track_index,
                 !.shuffled_indices = <<>>]

\* A plausible bug: turning shuffle off always restarts at the head of the
\* queue.
toggle_shuffle_off_reset(s) ==
  IF s.tracks = <<>>
  THEN [s EXCEPT !.shuffle_mode = FALSE,
                 !.current_track_index = -1,
                 !.shuffled_indices = <<>>]
  ELSE [s EXCEPT !.shuffle_mode = FALSE,
                 !.current_track_index = 0,
                 !.shuffled_indices = <<>>]

\* toggle_shuffle, the branch taken when the flag becomes False (lines 104-123).
toggle_shuffle_off(s) ==
  LET c == s.current_track_index IN
  IF s.tracks = <<>>
  THEN [s EXCEPT !.shuffle_mode = FALSE,
                 !.current_track_index = -1,
                 !.shuffled_indices = <<>>]
  ELSE [s EXCEPT !.shuffle_mode = FALSE,
                 !.current_track_index =
                    IF 0 <= c /\ c < Len(s.shuffled_indices)
                    THEN LET actual == s.shuffled_indices[c + 1] IN
                         IF 0 <= actual /\ actual < Len(s.tracks)
                         THEN actual
                         ELSE 0
                    ELSE 0,
                 !.shuffled_indices = <<>>]

\* Playlist.toggle_shuffle; p is the arrangement random.shuffle draws.
toggle_shuffle(s, p) ==
  IF ~s.shuffle_mode THEN toggle_shuffle_on(s, p) ELSE toggle_shuffle_off(s)

\* ------------------------------------------------- add / remove
\* A plausible bug: the first add_track of the file (lines 17-22), which the
\* later definition replaces: it does not leave shuffle mode.
add_track_no_shuffle_off(s, track_path) ==
  IF Contains(s.tracks, track_path)
  THEN s
  ELSE LET t == Append(s.tracks, track_path) IN
       [s EXCEPT !.tracks = t,
                 !.current_track_index =
                    IF s.current_track_index = -1 /\ Len(t) = 1
                    THEN 0 ELSE s.current_track_index]

\* A plausible bug: no membership test before the append.
add_track_no_dedup(s, track_path) ==
  LET s1 == IF s.shuffle_mode
            THEN toggle_shuffle(s, IdPerm(Len(s.tracks))) ELSE s
      t == Append(s1.tracks, track_path)
  IN [s1 EXCEPT !.tracks = t,
                !.current_track_index =
                   IF s1.current_track_index = -1 /\ Len(t) = 1
                   THEN 0 ELSE s1.current_track_index]

\* A plausible bug: an add of a track already in the list rewinds to the
\* first track.
add_track_present_rewinds(s, track_path) ==
  LET s1 == IF s.shuffle_mode
            THEN toggle_shuffle(s, IdPerm(Len(s.tracks))) ELSE s
  IN IF Contains(s1.tracks, track_path)
     THEN [s1 EXCEPT !.current_track_index = 0]
     ELSE LET t == Append(s1.tracks, track_path) IN
          [s1 EXCEPT !.tracks = t,
                     !.current_track_index =
                        IF s1.current_track_index = -1 /\ Len(t) = 1
                        THEN 0 ELSE s1.current_track_index]

\* A plausible bug: the length test of line 77 is missing, so any add made
\* while no track is current selects the first track.
add_track_selects_first(s, track_path) ==
  LET s1 == IF s.shuffle_mode
            THEN toggle_shuffle(s, IdPerm(Len(s.tracks))) ELSE s
  IN IF Contains(s1.tracks, track_path)
     THEN s1
     ELSE LET t == Append(s1.tracks, track_path) IN
          [s1 EXCEPT !.tracks = t,
                     !.current_track_index =
                        IF s1.current_track_index = -1
                        THEN 0 ELSE s1.current_track_index]

\* A variant that makes the appended track the current one.
add_track_selects_new(s, track_path) ==
  LET s1 == IF s.shuffle_mode
            THEN toggle_shuffle(s, IdPerm(Len(s.tracks))) ELSE s
  IN IF Contains(s1.tracks, track_path)
     THEN s1
     ELSE LET t == Append(s1.tracks, track_path) IN
          [s1 EXCEPT !.tracks = t,
                     !.current_track_index =
                        Len(t) - 1]

\* Playlist.add_track, the definition in force (lines 70-78).  The toggle it
\* makes is always the turn-off branch, which draws no permutation.
add_track(s, track_path) ==
  LET s1 == IF s.shuffle_mode
            THEN toggle_shuffle(s, IdPerm(Len(s.tracks))) ELSE s
  IN IF Contains(s1.tracks, track_path)
     THEN s1
     ELSE LET t == Append(s1.tracks, track_path) IN
          [s1 EXCEPT !.tracks = t,
                     !.current_track_index =
                        IF s1.current_track_index = -1 /\ Len(t) = 1
                        THEN 0 ELSE s1.current_track_index]

\* A plausible bug: the arithmetic neither clamps the cursor to the new end
\* nor lifts an unset cursor to 0.
remove_adjust_unclamped(cur, ridx, n) ==
  IF n = 0 THEN -1
  ELSE IF ridx < cur THEN cur - 1
  ELSE cur

\* remove_track lines 47-64: the index arithmetic used when the held track
\* cannot be looked up again.  cur is the cursor before the removal, ridx the
\* removed position, n the length after the removal (n > 0).
remove_adjust(cur, ridx, n) ==
  LET c1 == IF ridx < cur THEN cur - 1
            ELSE IF ridx = cur
                 THEN (IF cur >= n /\ n > 0 THEN n - 1 ELSE cur)
                 ELSE cur
  IN IF c1 >= n /\ n > 0 THEN n - 1
     ELSE IF c1 < 0 /\ n > 0 THEN 0
     ELSE IF n = 0 THEN -1
     ELSE c1

\* A plausible bug: the cursor is not moved when another track is removed.
remove_track_no_repoint(s, track_path) ==
  LET s1 == IF s.shuffle_mode
            THEN toggle_shuffle(s, IdPerm(Len(s.tracks))) ELSE s
  IN IF ~Contains(s1.tracks, track_path)
     THEN s1
     ELSE LET t == pop(s1.tracks, index(s1.tracks, track_path)) IN
          [s1 EXCEPT !.tracks = t,
                     !.current_track_index =
                        IF t = <<>> THEN -1 ELSE s1.current_track_index]

\* A plausible bug: the emptied queue keeps its cursor.
remove_track_no_reset(s, track_path) ==
  LET s1 == IF s.shuffle_mode
            THEN toggle_shuffle(s, IdPerm(Len(s.tracks))) ELSE s
  IN IF ~Contains(s1.tracks, track_path)
     THEN s1
     ELSE [s1 EXCEPT !.tracks = pop(s1.tracks, index(s1.tracks, track_path))]

\* Playlist.remove_track (lines 24-68).
remove_track(s, track_path) ==
  LET s1 == IF s.shuffle_mode
            THEN toggle_shuffle(s, IdPerm(Len(s.tracks))) ELSE s
  IN IF ~Contains(s1.tracks, track_path)
     THEN s1
     ELSE LET cur == s1.current_track_index
              held == IF 0 <= cur /\ cur < Len(s1.tracks)
                      THEN s1.tracks[cur + 1] ELSE None
              ridx == index(s1.tracks, track_path)
              t == pop(s1.tracks, ridx)
          IN [s1 EXCEPT !.tracks = t,
                        !.current_track_index =
                           IF t = <<>> THEN -1
                           ELSE IF Truthy(held) /\ held # track_path
                                   /\ Contains(t, held)
                                THEN index(t, held)
                                ELSE remove_adjust(cur, ridx, Len(t))]

\* A plausible bug: an invalid mode leaves the mode as it was.
set_repeat_mode_ignore_invalid(s, mode) ==
  [s EXCEPT !.repeat_mode = IF mode \in Modes THEN mode ELSE s.repeat_mode]

\* Playlist.set_repeat_mode (lines 125-130).
set_repeat_mode(s, mode) ==
  [s EXCEPT !.repeat_mode = IF mode \in Modes THEN mode ELSE "none"]

\* Playlist.get_current_track (lines 134-148).
get_current_track(s) ==
  LET c == s.current_track_index IN
  IF s.tracks = <<>> THEN None
  ELSE IF s.shuffle_mode
       THEN IF 0 <= c /\ c < Len(s.shuffled_indices)
            THEN LET actual_idx == s.shuffled_indices[c + 1] IN
                 IF 0 <= actual_idx /\ actual_idx < Len(s.tracks)
                 THEN s.tracks[actual_idx + 1] ELSE None
            ELSE None
       ELSE IF 0 <= c /\ c < Len(s.tracks) THEN s.tracks[c + 1] ELSE None

\* A plausible bug: with shuffle on the tracks are listed in playback order.
get_playlist_tracks_shuffled(s) ==
  IF s.shuffle_mode /\ Len(s.shuffled_indices) = Len(s.tracks)
  THEN [i \in 1..Len(s.tracks) |-> s.tracks[s.shuffled_indices[i] + 1]]
  ELSE s.tracks

\* Playlist.get_playlist_tracks (lines 308-310).
get_playlist_tracks(s) == s.tracks

\* ------------------------------------------------------- navigation
\* next_track / previous_track lines 189-196 and 253-258: the track the
\* cursor designates through the permutation, as the returned value.
resolve_shuffled(s) ==
  LET c == s.current_track_index IN
  IF c = -1 THEN [s |-> s, ret |-> None]
  ELSE IF ~(0 <= c /\ c < Len(s.shuffled_indices)) THEN [s |-> s, ret |-> None]
  ELSE [s |-> s, ret |-> s.tracks[s.shuffled_indices[c + 1] + 1]]

\* A plausible bug: repeat 'one' falls through to the ordinary step, so the
\* cursor advances (wrapping at the end of the active order).
repeat_one_advance(s) ==
  LET n == IF s.shuffle_mode THEN Len(s.shuffled_indices) ELSE Len(s.tracks)
      s1 == [s EXCEPT !.current_track_index =
                         IF s.current_track_index + 1 >= n THEN 0
                         ELSE s.current_track_index + 1]
  IN [s |-> s1, ret |-> get_current_track(s1)]

\* A plausible bug: with nothing current, repeat 'one' selects the last
\* position of the active order (the usual entry point of previous_track).
repeat_one_last(s) ==
  LET n == IF s.shuffle_mode THEN Len(s.shuffled_indices) ELSE Len(s.tracks)
      s1 == IF s.current_track_index = -1
            THEN [s EXCEPT !.current_track_index = n - 1] ELSE s
  IN [s |-> s1, ret |-> get_current_track(s1)]

\* A variant that resolves the cursor as it stands: from the unset cursor
\* it returns None and leaves the cursor unset.
repeat_one_keep_unset(s) ==
  [s |-> s, ret |-> get_current_track(s)]

\* next_track and previous_track under repeat 'one' (lines 158-162, 224-228).
repeat_one(s) ==
  LET s1 == IF s.current_track_index = -1
            THEN [s EXCEPT !.current_track_index = 0] ELSE s
  IN [s |-> s1, ret |-> get_current_track(s1)]

\* A plausible bug: running off the end of the permutation under repeat
\* 'none' starts over at its head instead of ending.
next_shuffled_no_end(s, p) ==
  LET c == s.current_track_index
      n == Len(s.shuffled_indices)
      target == IF c = -1 THEN 0 ELSE c + 1
  IN resolve_shuffled([s EXCEPT !.current_track_index =
                                   IF target >= n THEN 0 ELSE target])

\* A plausible bug: the forward wrap under repeat 'all' is missing, the
\* cursor runs past the end of the permutation.
next_shuffled_overrun(s, p) ==
  LET c == s.current_track_index
      n == Len(s.shuffled_indices)
      target == IF c = -1 THEN 0 ELSE c + 1
  IN IF target >= n /\ s.repeat_mode # "all"
     THEN [s |-> [s EXCEPT !.current_track_index = -1], ret |-> None]
     ELSE resolve_shuffled([s EXCEPT !.current_track_index = target])

\* A plausible bug: the forward wrap resolves the track at the head of the
\* old permutation and reshuffles afterwards.
next_shuffled_late_reshuffle(s, p) ==
  LET c == s.current_track_index
      n == Len(s.shuffled_indices)
      target == IF c = -1 THEN 0 ELSE c + 1
  IN IF target >= n
     THEN IF s.repeat_mode = "all"
          THEN [s |-> [s EXCEPT !.current_track_index = 0,
                                !.shuffled_indices =
                                   random_shuffle(s.shuffled_indices, p)],
                ret |-> s.tracks[s.shuffled_indices[1] + 1]]
          ELSE [s |-> [s EXCEPT !.current_track_index = -1], ret |-> None]
     ELSE resolve_shuffled([s EXCEPT !.current_track_index = target])

\* next_track, shuffle branch (lines 164-196).
next_shuffled(s, p) ==
  LET s1 == IF s.shuffled_indices = <<>> THEN toggle_shuffle(s, p) ELSE s IN
  IF s.shuffled_indices = <<>> /\ s1.shuffled_indices = <<>>
  THEN [s |-> s1, ret |-> None]
  ELSE LET c == s1.current_track_index
           n == Len(s1.shuffled_indices)
           target == IF c = -1 THEN 0 ELSE c + 1
       IN IF target >= n
          THEN IF s1.repeat_mode = "all"
               THEN resolve_shuffled(
                      [s1 EXCEPT !.current_track_index = 0,
                                 !.shuffled_indices =
                                    random_shuffle(s1.shuffled_indices, p)])
               ELSE [s |-> [s1 EXCEPT !.current_track_index = -1],
                     ret |-> None]
          ELSE resolve_shuffled([s1 EXCEPT !.current_track_index = target])

\* A plausible bug: the end test is off by one, the last track is skipped.
next_linear_off_by_one(s) ==
  LET c == s.current_track_index IN
  IF c = -1 /\ s.repeat_mode = "none"
  THEN [s |-> s, ret |-> None]
  ELSE LET c1 == IF c = -1 THEN 0 ELSE c + 1 IN
       IF c1 >= Len(s.tracks) - 1
       THEN IF s.repeat_mode = "all"
            THEN [s |-> [s EXCEPT !.current_track_index = 0],
                  ret |-> s.tracks[1]]
            ELSE [s |-> [s EXCEPT !.current_track_index = -1], ret |-> None]
       ELSE [s |-> [s EXCEPT !.current_track_index = c1],
             ret |-> s.tracks[c1 + 1]]

\* A variant whose wrap under repeat 'all' lands on the second track of a
\* queue of several: past the first lap the first track is never returned.
next_linear_wrap_second(s) ==
  LET c == s.current_track_index IN
  IF c = -1 /\ s.repeat_mode = "none"
  THEN [s |-> s, ret |-> None]
  ELSE LET c1 == IF c = -1 THEN 0 ELSE c + 1 IN
       IF c1 >= Len(s.tracks)
       THEN IF s.repeat_mode = "all"
            THEN LET w == IF Len(s.tracks) > 1 THEN 1 ELSE 0 IN
                 [s |-> [s EXCEPT !.current_track_index = w],
                  ret |-> s.tracks[w + 1]]
            ELSE [s |-> [s EXCEPT !.current_track_index = -1], ret |-> None]
       ELSE [s |-> [s EXCEPT !.current_track_index = c1],
             ret |-> s.tracks[c1 + 1]]

\* next_track, linear branch (lines 198-216).
next_linear(s) ==
  LET c == s.current_track_index IN
  IF c = -1 /\ s.repeat_mode = "none"
  THEN [s |-> s, ret |-> None]
  ELSE LET c1 == IF c = -1 THEN 0 ELSE c + 1 IN
       IF c1 >= Len(s.tracks)
       THEN IF s.repeat_mode = "all"
            THEN [s |-> [s EXCEPT !.current_track_index = 0],
                  ret |-> s.tracks[1]]
            ELSE [s |-> [s EXCEPT !.current_track_index = -1], ret |-> None]
       ELSE [s |-> [s EXCEPT !.current_track_index = c1],
             ret |-> s.tracks[c1 + 1]]

\* Playlist.next_track (lines 150-216).
next_track(s, p) ==
  IF s.tracks = <<>>
  THEN [s |-> [s EXCEPT !.current_track_index = -1], ret |-> None]
  ELSE IF s.repeat_mode = "one" THEN repeat_one(s)
  ELSE IF s.shuffle_mode THEN next_shuffled(s, p)
  ELSE next_linear(s)

\* A plausible bug: the backward wrap reshuffles as the forward wrap does.
previous_shuffled_reshuffle(s, p) ==
  LET c == s.current_track_index
      n == Len(s.shuffled_indices)
      target == IF c = -1 THEN n - 1 ELSE c - 1
  IN IF target < 0
     THEN IF s.repeat_mode = "all"
          THEN resolve_shuffled(
                 [s EXCEPT !.current_track_index = n - 1,
                           !.shuffled_indices =
                              random_shuffle(s.shuffled_indices, p)])
          ELSE [s |-> [s EXCEPT !.current_track_index = -1], ret |-> None]
     ELSE resolve_shuffled([s EXCEPT !.current_track_index = target])

\* A plausible bug: from an unset cursor previous_track() enters the order at
\* its head, as next_track() does.
previous_shuffled_unset_to_head(s, p) ==
  LET s1 == IF s.shuffled_indices = <<>> THEN toggle_shuffle(s, p) ELSE s IN
  IF s.shuffled_indices = <<>> /\ s1.shuffled_indices = <<>>
  THEN [s |-> s1, ret |-> None]
  ELSE LET c == s1.current_track_index
           n == Len(s1.shuffled_indices)
           target == IF c = -1 THEN 0 ELSE c - 1
       IN IF target < 0
          THEN IF s1.repeat_mode = "all"
               THEN resolve_shuffled(
                      [s1 EXCEPT !.current_track_index =
                                    IF n > 0 THEN n - 1 ELSE -1])
               ELSE [s |-> [s1 EXCEPT !.current_track_index = -1],
                     ret |-> None]
          ELSE resolve_shuffled([s1 EXCEPT !.current_track_index = target])

\* previous_track, shuffle branch (lines 230-258).
previous_shuffled(s, p) ==
  LET s1 == IF s.shuffled_indices = <<>> THEN toggle_shuffle(s, p) ELSE s IN
  IF s.shuffled_indices = <<>> /\ s1.shuffled_indices = <<>>
  THEN [s |-> s1, ret |-> None]
  ELSE LET c == s1.current_track_index
           n == Len(s1.shuffled_indices)
           target == IF c = -1 THEN n - 1 ELSE c - 1
       IN IF target < 0
          THEN IF s1.repeat_mode = "all"
               THEN resolve_shuffled(
                      [s1 EXCEPT !.current_track_index =
                                    IF n > 0 THEN n - 1 ELSE -1])
               ELSE [s |-> [s1 EXCEPT !.current_track_index = -1],
                     ret |-> None]
          ELSE resolve_shuffled([s1 EXCEPT !.current_track_index = target])

\* A plausible bug: the "stay at end" test (line 261) is missing, so a cursor
\* of -1 re-enters from the tail under repeat 'none' too.
previous_linear_reenter(s) ==
  LET c == s.current_track_index
      n == Len(s.tracks)
  IN IF c = -1
     THEN [s |-> [s EXCEPT !.current_track_index = n - 1],
           ret |-> s.tracks[n]]
     ELSE IF c = 0
          THEN IF s.repeat_mode = "all"
               THEN [s |-> [s EXCEPT !.current_track_index = n - 1],
                     ret |-> s.tracks[n]]
               ELSE [s |-> [s EXCEPT !.current_track_index = -1],
                     ret |-> None]
     ELSE [s |-> [s EXCEPT !.current_track_index = c - 1],
           ret |-> s.tracks[c]]

\* A plausible bug: stepping back from the head ends the navigation under
\* repeat 'all' as it does under repeat 'none'.
previous_linear_no_wrap(s) ==
  LET c == s.current_track_index
      n == Len(s.tracks)
  IN IF c = -1 /\ s.repeat_mode = "none"
     THEN [s |-> s, ret |-> None]
     ELSE IF c = -1
          THEN [s |-> [s EXCEPT !.current_track_index = n - 1],
                ret |-> s.tracks[n]]
     ELSE IF c = 0
          THEN [s |-> [s EXCEPT !.current_track_index = -1], ret |-> None]
     ELSE [s |-> [s EXCEPT !.current_track_index = c - 1],
           ret |-> s.tracks[c]]

\* previous_track, linear branch (lines 260-275).
previous_linear(s) ==
  LET c == s.current_track_index
      n == Len(s.tracks)
  IN IF c = -1 /\ s.repeat_mode = "none"
     THEN [s |-> s, ret |-> None]
     ELSE IF c = -1
          THEN [s |-> [s EXCEPT !.current_track_index = n - 1],
                ret |-> s.tracks[n]]
     ELSE IF c = 0
          THEN IF s.repeat_mode = "all"
               THEN [s |-> [s EXCEPT !.current_track_index = n - 1],
                     ret |-> s.tracks[n]]
               ELSE [s |-> [s EXCEPT !.current_track_index = -1],
                     ret |-> None]
     ELSE [s |-> [s EXCEPT !.current_track_index = c - 1],
           ret |-> s.tracks[c]]

\* Playlist.previous_track (lines 218-275).
previous_track(s, p) ==
  IF s.tracks = <<>>
  THEN [s |-> [s EXCEPT !.current_track_index = -1], ret |-> None]
  ELSE IF s.repeat_mode = "one" THEN repeat_one(s)
  ELSE IF s.shuffle_mode THEN previous_shuffled(s, p)
  ELSE previous_linear(s)

\* A plausible bug: the shuffle mode is ignored, the cursor is always set to
\* the queue index.
set_current_track_by_path_queue_index(s, track_path, p) ==
  IF ~Contains(s.tracks, track_path)
  THEN [s |-> s, ret |-> FALSE]
  ELSE [s |-> [s EXCEPT !.current_track_index = index(s.tracks, track_path)],
        ret |-> TRUE]

\* A plausible bug: a failed lookup clears the current track.
set_current_track_by_path_clear(s, track_path, p) ==
  IF ~Contains(s.tracks, track_path)
  THEN [s |-> [s EXCEPT !.current_track_index = -1], ret |-> FALSE]
  ELSE LET original_list_idx == index(s.tracks, track_path) IN
       [s |-> [s EXCEPT !.current_track_index =
                           IF s.shuffle_mode
                           THEN index(s.shuffled_indices, original_list_idx)
                           ELSE original_list_idx],
        ret |-> TRUE]

\* Playlist.set_current_track_by_path (lines 277-306).
set_current_track_by_path(s, track_path, p) ==
  IF ~Contains(s.tracks, track_path)
  THEN [s |-> s, ret |-> FALSE]
  ELSE LET original_list_idx == index(s.tracks, track_path) IN
       IF s.shuffle_mode
       THEN LET s1 == IF s.shuffled_indices = <<>> /\ s.tracks # <<>>
                      THEN [s EXCEPT !.shuffled_indices =
                                        random_shuffle(range(Len(s.tracks)), p)]
                      ELSE s
            IN IF Contains(s1.shuffled_indices, original_list_idx)
               THEN [s |-> [s1 EXCEPT !.current_track_index =
                                         index(s1.shuffled_indices,
                                               original_list_idx)],
                     ret |-> TRUE]
               ELSE [s |-> [toggle_shuffle(s1, p) EXCEPT
                              !.current_track_index = original_list_idx],
                     ret |-> TRUE]
       ELSE [s |-> [s EXCEPT !.current_track_index = original_list_idx],
             ret |-> TRUE]

\* ----------------------------------------------------------- Player
\* The Player object as a record: its transport flags, the path it holds as
\* loaded, the music stream of the mixer, its playlist, and the log of the
\* mixer commands the call in progress has issued.  volume and
\* track_duration are left out: no transport decision reads them (whether
\* track_duration is positive is drawn where seek asks).
PlayerSelf ==
  [is_playing |-> is_playing,
   is_paused |-> is_paused,
   current_position |-> current_position,
   current_track_loaded_path |-> current_track_loaded_path,
   mixer |-> mixer,
   playlist |-> Self,
   log |-> <<>>]

\* Player.__init__
Player_init ==
  [is_playing |-> FALSE,
   is_paused |-> FALSE,
   current_position |-> 0,
   current_track_loaded_path |-> None,
   mixer |-> "idle",
   playlist |-> Playlist_init,
   log |-> <<>>]

\* One mixer command in the log.
Command(cmd, arg, ok) == [cmd |-> cmd, arg |-> arg, ok |-> ok]

\* pygame.mixer.music.get_busy(): True while the stream plays, False while
\* it is idle; while it is paused the answer depends on the pygame version
\* (True in pygame 1, False since 2.0.1), so it is the drawn value b.
get_busy(pl, b) ==
  IF pl.mixer = "playing" THEN TRUE
  ELSE IF pl.mixer = "paused" THEN b
  ELSE FALSE

\* pygame.mixer.music.play(): the loaded stream starts from its beginning.
music_play(pl) ==
  [pl EXCEPT !.mixer = "playing",
             !.log = Append(@, Command("play", None, TRUE))]

\* pygame.mixer.music.unpause(): a paused stream resumes, any other is left
\* as it is.
music_unpause(pl) ==
  [pl EXCEPT !.mixer = IF @ = "paused" THEN "playing" ELSE @,
             !.log = Append(@, Command("unpause", None, TRUE))]

\* What pygame.mixer.music.load can do: load the file, or raise
\* pygame.error and leave the stream as it was, or raise pygame.error after
\* the stream was released (which one a failure is depends on the pygame
\* version).
LoadResults == {"loaded", "error", "error_released"}

\* A plausible bug: a load that fails forgets the path but leaves the flags.
_load_track_keep_flags(pl, track_path, res) ==
  IF res = "loaded"
  THEN [pl EXCEPT !.mixer = "idle",
                  !.current_track_loaded_path = track_path,
                  !.current_position = 0,
                  !.log = Append(@, Command("load", track_path, TRUE))]
  ELSE [pl EXCEPT !.mixer = IF res = "error_released" THEN "idle" ELSE @,
                  !.current_track_loaded_path = None,
                  !.log = Append(@, Command("load", track_path, FALSE))]

\* Player._load_track (lines 17-39), res being what the load does; True is
\* returned exactly when res is "loaded".  A load that succeeds replaces the
\* stream, which is then idle.
_load_track(pl, track_path, res) ==
  IF res = "loaded"
  THEN [pl EXCEPT !.mixer = "idle",
                  !.current_track_loaded_path = track_path,
                  !.current_position = 0,
                  !.log = Append(@, Command("load", track_path, TRUE))]
  ELSE [pl EXCEPT !.mixer = IF res = "error_released" THEN "idle" ELSE @,
                  !.current_track_loaded_path = None,
                  !.is_playing = FALSE,
                  !.is_paused = FALSE,
                  !.log = Append(@, Command("load", track_path, FALSE))]

\* What play() does once the track is known: after a load that succeeds the
\* stream is started and the flags say playing, after one that fails the
\* flags say stopped.
load_and_play(pl, track_path, res) ==
  IF res = "loaded"
  THEN [music_play(_load_track(pl, track_path, res))
          EXCEPT !.is_playing = TRUE, !.is_paused = FALSE]
  ELSE [_load_track(pl, track_path, res)
          EXCEPT !.is_playing = FALSE, !.is_paused = FALSE]

\* Player.play, the branch of a given track_path (lines 43-62).
play_path(pl, track_path, p, res) ==
  LET r == set_current_track_by_path(pl.playlist, track_path, p)
      pl1 == [pl EXCEPT !.playlist = r.s]
  IN IF r.ret
     THEN load_and_play(pl1, track_path, res)
     ELSE [pl1 EXCEPT !.is_playing = FALSE, !.is_paused = FALSE]

\* Player.play, the branch without a track_path (lines 64-86): resume, or
\* play the current track of the playlist.
play_current(pl, res, b) ==
  IF pl.is_paused /\ Truthy(pl.current_track_loaded_path)
  THEN [music_unpause(pl) EXCEPT !.is_playing = TRUE, !.is_paused = FALSE]
  ELSE LET current_track_path_from_playlist ==
             get_current_track(pl.playlist)
       IN IF Truthy(current_track_path_from_playlist)
          THEN IF \/ pl.current_track_loaded_path
                       # current_track_path_from_playlist
                  \/ ~get_busy(pl, b)
               THEN load_and_play(pl, current_track_path_from_playlist, res)
               ELSE [music_play(pl)
                       EXCEPT !.is_playing = TRUE, !.is_paused = FALSE]
          ELSE [pl EXCEPT !.is_playing = FALSE, !.is_paused = FALSE]

\* Player.play (lines 41-86); track_path is None when no argument is given,
\* and the test of line 43 is a truth test, so '' counts as no argument.
play(pl, track_path, p, res, b) ==
  IF Truthy(track_path)
  THEN play_path(pl, track_path, p, res)
  ELSE play_current(pl, res, b)

\* Player.pause (lines 88-94).
pause(pl, b) ==
  IF pl.is_playing /\ ~pl.is_paused /\ get_busy(pl, b)
  THEN [pl EXCEPT !.mixer = "paused",
                  !.is_paused = TRUE,
                  !.is_playing = FALSE,
                  !.log = Append(@, Command("pause", None, TRUE))]
  ELSE pl

\* A plausible bug: stop() forgets the loaded path (the assignment line 102
\* keeps as a comment).
stop_unload(pl) ==
  [pl EXCEPT !.mixer = "idle",
             !.is_playing = FALSE,
             !.is_paused = FALSE,
             !.current_position = 0,
             !.current_track_loaded_path = None,
             !.log = Append(@, Command("stop", None, TRUE))]

\* Player.stop (lines 96-101).
stop(pl) ==
  [pl EXCEPT !.mixer = "idle",
             !.is_playing = FALSE,
             !.is_paused = FALSE,
             !.current_position = 0,
             !.log = Append(@, Command("stop", None, TRUE))]

\* pygame.mixer.music.pause(): a playing stream is suspended.
music_pause(pl) ==
  [pl EXCEPT !.mixer = IF @ = "playing" THEN "paused" ELSE @,
             !.log = Append(@, Command("pause", None, TRUE))]

\* The positions seek is asked for: the start of the track and a later
\* second (the track lasts at least that long when it has a duration).
SeekPositions == {0, 1}

\* Player.seek (lines 155-197).  has_duration tells whether
\* track_duration > 0; res is what the reload of the stopped case does;
\* pos_ok tells whether the mixer accepts the position (play(start=...) or
\* set_pos raise pygame.error otherwise, which seek catches, skipping what
\* follows).
seek(pl, position, has_duration, res, pos_ok) ==
  IF Truthy(pl.current_track_loaded_path) /\ has_duration
  THEN IF ~pl.is_playing /\ ~pl.is_paused
       THEN LET pl1 == _load_track(pl, pl.current_track_loaded_path, res) IN
            IF res = "error_released" \/ ~pos_ok
            THEN pl1
            ELSE [music_pause(music_play(pl1))
                    EXCEPT !.current_position = position]
       ELSE IF pl.is_paused
            THEN IF pos_ok
                 THEN [music_pause(music_unpause(pl))
                         EXCEPT !.current_position = position]
                 ELSE music_unpause(pl)
            ELSE IF pos_ok
                 THEN [pl EXCEPT !.current_position = position]
                 ELSE pl
  ELSE pl

\* A plausible bug: the new track is loaded but never started.
skip_to_no_play(pl, was, new_track_path, p, res1, res2, b) ==
  IF Truthy(new_track_path)
  THEN _load_track(pl, new_track_path, res1)
  ELSE stop(pl)

\* A plausible bug: the new track is started whatever the transport was.
skip_to_always_play(pl, was, new_track_path, p, res1, res2, b) ==
  IF Truthy(new_track_path)
  THEN LET pl2 == _load_track(pl, new_track_path, res1) IN
       IF ~pl2.is_paused
       THEN play(pl2, None, p, res2, b)
       ELSE pl2
  ELSE stop(pl)

\* What Player.next_track and Player.prev_track do with the track the
\* playlist returned (lines 111-123 and 130-139): was is
\* current_is_playing_or_paused, taken before the playlist was asked; res1 is
\* the outcome of the load made here, res2 of the one play() may make.
skip_to(pl, was, new_track_path, p, res1, res2, b) ==
  IF Truthy(new_track_path)
  THEN LET pl2 == _load_track(pl, new_track_path, res1) IN
       IF was /\ ~pl2.is_paused
       THEN play(pl2, None, p, res2, b)
       ELSE pl2
  ELSE stop(pl)

\* Player.next_track (lines 106-123).
Player_next_track(pl, p, res1, res2, b) ==
  LET current_is_playing_or_paused == pl.is_playing \/ pl.is_paused
      r == next_track(pl.playlist, p)
  IN skip_to([pl EXCEPT !.playlist = r.s], current_is_playing_or_paused,
             r.ret, p, res1, res2, b)

\* Player.prev_track (lines 125-139).
prev_track(pl, p, res1, res2, b) ==
  LET current_is_playing_or_paused == pl.is_playing \/ pl.is_paused
      r == previous_track(pl.playlist, p)
  IN skip_to([pl EXCEPT !.playlist = r.s], current_is_playing_or_paused,
             r.ret, p, res1, res2, b)

\* ---------------------------------------------------------- actions
\* The history kept since shuffle was turned on: stage "on" from the
\* toggle_shuffle call that turned it on, "off" after the toggle_shuffle call
\* that turned it off again; cursor0 is the cursor before the first toggle,
\* played the value of get_current_track() right after it followed by the
\* values the next_track() calls made since have returned.  Any other call
\* clears it.
Blank == [stage |-> "none", cursor0 |-> -1, played |-> <<>>]

\* The states in which a next_track() call is a forward wrap: shuffle on,
\* repeat 'all', the cursor at the last position of the permutation.  The
\* history lap starts at such a call with the value it returns, grows with
\* the value of each next_track() call that follows, and is cleared by any
\* other call.
AtForwardWrap(s) ==
  /\ s.shuffle_mode
  /\ s.repeat_mode = "all"
  /\ s.shuffled_indices # <<>>
  /\ s.current_track_index = Len(s.shuffled_indices) - 1

\* The longest run of next_track() calls the history follows.
MaxPlayed == NumIds + 2

\* The history run before any run of next_track() calls has begun: on says
\* whether one is in progress, tick alternates with its calls, returned
\* holds the values its latest calls returned.
NoRun == [on |-> FALSE, tick |-> 0, returned |-> <<>>]

\* The latest n values of a sequence of returned values.
latest(values, n) ==
  IF Len(values) > n THEN SubSeq(values, Len(values) - n + 1, Len(values))
  ELSE values

Install(s) ==
  /\ tracks' = s.tracks
  /\ current_track_index' = s.current_track_index
  /\ shuffle_mode' = s.shuffle_mode
  /\ repeat_mode' = s.repeat_mode
  /\ shuffled_indices' = s.shuffled_indices

Call(op, arg, ret) == [op |-> op, arg |-> arg, ret |-> ret, pre |-> Self]

\* The Player history before any Player call, and after a step that is
\* not one.
NoCall ==
  [op |-> "none", arg |-> None, was_playing |-> FALSE, was_paused |-> FALSE,
   ret |-> None, log |-> <<>>]

\* The Player history of a call: ret is what the playlist returned to it
\* (None when it asked for no track), pl the Player after it.
PlayerCall(op, arg, ret, pl) ==
  [op |-> op, arg |-> arg, was_playing |-> is_playing,
   was_paused |-> is_paused, ret |-> ret, log |-> pl.log]

InstallPlayer(pl) ==
  /\ Install(pl.playlist)
  /\ is_playing' = pl.is_playing
  /\ is_paused' = pl.is_paused
  /\ current_position' = pl.current_position
  /\ current_track_loaded_path' = pl.current_track_loaded_path
  /\ mixer' = pl.mixer

Init ==
  /\ tracks = Playlist_init.tracks
  /\ current_track_index = Playlist_init.current_track_index
  /\ shuffle_mode = Playlist_init.shuffle_mode
  /\ repeat_mode = Playlist_init.repeat_mode
  /\ shuffled_indices = Playlist_init.shuffled_indices
  /\ last = [op |-> "init", arg |-> None, ret |-> None, pre |-> Playlist_init]
  /\ since_on = Blank
  /\ lap = <<>>
  /\ is_playing = Player_init.is_playing
  /\ is_paused = Player_init.is_paused
  /\ current_position = Player_init.current_position
  /\ current_track_loaded_path = Player_init.current_track_loaded_path
  /\ mixer = Player_init.mixer
  /\ plast = NoCall
  /\ run = NoRun

AddTrack ==
  \E track_path \in Ids :
    /\ Install(add_track(Self, track_path))
    /\ last' = Call("add_track", track_path, None)
    /\ since_on' = Blank
    /\ lap' = <<>>
    /\ UNCHANGED <<player_vars, run>>

RemoveTrack ==
  \E track_path \in Ids :
    /\ Install(remove_track(Self, track_path))
    /\ last' = Call("remove_track", track_path, None)
    /\ since_on' = Blank
    /\ lap' = <<>>
    /\ UNCHANGED <<player_vars, run>>

ToggleShuffle ==
  \E s2 \in {toggle_shuffle(Self, p) : p \in Perms(Len(tracks))} :
    /\ Install(s2)
    /\ last' = Call("toggle_shuffle", None, None)
    /\ since_on' =
         IF s2.shuffle_mode
         THEN [stage |-> "on", cursor0 |-> current_track_index,
               played |-> <<get_current_track(s2)>>]
         ELSE IF since_on.stage = "on"
              THEN [since_on EXCEPT !.stage = "off"]
              ELSE Blank
    /\ lap' = <<>>
    /\ UNCHANGED <<player_vars, run>>

SetRepeatMode ==
  \E mode \in ModeInputs :
    /\ Install(set_repeat_mode(Self, mode))
    /\ last' = Call("set_repeat_mode", mode, None)
    /\ since_on' = Blank
    /\ lap' = <<>>
    /\ UNCHANGED <<player_vars, run>>

NextTrack ==
  \E r \in {next_track(Self, p) : p \in Perms(Len(tracks))} :
    /\ Install(r.s)
    /\ last' = Call("next_track", None, r.ret)
    /\ since_on' =
         IF since_on.stage = "on" /\ Len(since_on.played) < MaxPlayed
         THEN [since_on EXCEPT !.played = Append(@, r.ret)]
         ELSE Blank
    /\ lap' = IF AtForwardWrap(Self) THEN <<r.ret>>
              ELSE IF lap # <<>> THEN Append(lap, r.ret)
              ELSE <<>>
    /\ UNCHANGED <<player_vars, run>>

PreviousTrack ==
  \E r \in {previous_track(Self, p) : p \in Perms(Len(tracks))} :
    /\ Install(r.s)
    /\ last' = Call("previous_track", None, r.ret)
    /\ since_on' = Blank
    /\ lap' = <<>>
    /\ UNCHANGED <<player_vars, run>>

SetCurrentTrackByPath ==
  \E track_path \in Ids :
    \E r \in {set_current_track_by_path(Self, track_path, p) :
                p \in Perms(Len(tracks))} :
    /\ Install(r.s)
    /\ last' = Call("set_current_track_by_path", track_path, r.ret)
    /\ since_on' = Blank
    /\ lap' = <<>>
    /\ UNCHANGED <<player_vars, run>>

\* The two read-only methods; they end a followed run like any other call
\* that is not next_track().
GetCurrentTrack ==
  /\ Install(Self)
  /\ last' = Call("get_current_track", None, get_current_track(Self))
  /\ since_on' = Blank
  /\ lap' = <<>>
  /\ UNCHANGED <<player_vars, run>>

GetPlaylistTracks ==
  /\ Install(Self)
  /\ last' = Call("get_playlist_tracks", None, get_playlist_tracks(Self))
  /\ since_on' = Blank
  /\ lap' = <<>>
  /\ UNCHANGED <<player_vars, run>>

Next ==
  \/ AddTrack
  \/ RemoveTrack
  \/ ToggleShuffle
  \/ SetRepeatMode
  \/ NextTrack
  \/ PreviousTrack
  \/ SetCurrentTrackByPath
  \/ GetCurrentTrack
  \/ GetPlaylistTracks

Spec == Init /\ [][Next]_vars

\* -------------------------------------- the stale-permutation state
\* The lists of distinct identifiers self.tracks can be, the empty one
\* excepted.
Queues ==
  {t \in UNION {[1..n -> Ids] : n \in 1..NumIds} :
     \A i, j \in 1..Len(t) : t[i] = t[j] => i = j}

\* The state the defensive branches of next_track (lines 165-171),
\* previous_track (lines 231-234) and set_current_track_by_path
\* (lines 285-290) are written for: shuffle_mode True over a non-empty
\* queue while shuffled_indices is empty.  The fields are public
\* attributes; here they have been assigned directly.
StaleInit ==
  \E t \in Queues :
    \E c \in -1..(Len(t) - 1) :
      \E mode \in Modes :
        /\ tracks = t
        /\ current_track_index = c
        /\ shuffle_mode = TRUE
        /\ repeat_mode = mode
        /\ shuffled_indices = <<>>
        /\ last = [op |-> "init", arg |-> None, ret |-> None,
                   pre |-> Playlist_init]
        /\ since_on = Blank
        /\ lap = <<>>
        /\ is_playing = Player_init.is_playing
        /\ is_paused = Player_init.is_paused
        /\ current_position = Player_init.current_position
        /\ current_track_loaded_path = Player_init.current_track_loaded_path
        /\ mixer = Player_init.mixer
        /\ plast = NoCall
        /\ run = NoRun

\* The Playlist methods called from that state on.
StaleSpec == StaleInit /\ [][Next]_vars

\* ---------------------------------------------------- Player actions
\* The Player with its playlist.  The calls made on player.playlist
\* directly are the Playlist methods; their histories are not followed here.
\* One arrangement for each distinct outcome among outcome[p], p ranging
\* over the arrangements random.shuffle can draw.
Draws(outcome) ==
  {CHOOSE p \in DOMAIN outcome : outcome[p] = r :
     r \in {outcome[p] : p \in DOMAIN outcome}}

Play ==
  \E track_path \in Ids \cup {None} :
    LET F == [p \in Perms(Len(tracks)) |->
                set_current_track_by_path(Self, track_path, p)] IN
    \E pl \in {play(PlayerSelf, track_path, p, res, b) :
                p \in Draws(F), res \in LoadResults, b \in BOOLEAN} :
      /\ InstallPlayer(pl)
      /\ plast' = PlayerCall("play", track_path, None, pl)
      /\ UNCHANGED playlist_history

Pause ==
  \E pl \in {pause(PlayerSelf, b) : b \in BOOLEAN} :
    /\ InstallPlayer(pl)
    /\ plast' = NoCall
    /\ UNCHANGED playlist_history

Stop ==
  LET pl == stop(PlayerSelf) IN
  /\ InstallPlayer(pl)
  /\ plast' = NoCall
  /\ UNCHANGED playlist_history

PlayerNextTrack ==
  LET F == [p \in Perms(Len(tracks)) |-> next_track(Self, p)] IN
  \E x \in {[pl |-> Player_next_track(PlayerSelf, p, res1, res2, b),
             ret |-> next_track(Self, p).ret] :
              p \in Draws(F), res1 \in LoadResults, res2 \in LoadResults,
              b \in BOOLEAN} :
    /\ InstallPlayer(x.pl)
    /\ plast' = PlayerCall("next_track", None, x.ret, x.pl)
    /\ UNCHANGED playlist_history

PrevTrack ==
  LET F == [p \in Perms(Len(tracks)) |-> previous_track(Self, p)] IN
  \E x \in {[pl |-> prev_track(PlayerSelf, p, res1, res2, b),
             ret |-> previous_track(Self, p).ret] :
              p \in Draws(F), res1 \in LoadResults, res2 \in LoadResults,
              b \in BOOLEAN} :
    /\ InstallPlayer(x.pl)
    /\ plast' = PlayerCall("prev_track", None, x.ret, x.pl)
    /\ UNCHANGED playlist_history

Seek ==
  \E pl \in {seek(PlayerSelf, position, has_duration, res, pos_ok) :
              position \in SeekPositions, has_duration \in BOOLEAN,
              res \in LoadResults, pos_ok \in BOOLEAN} :
    /\ InstallPlayer(pl)
    /\ plast' = NoCall
    /\ UNCHANGED playlist_history

\* The stream reaches the end of the track by itself; the Player is not told.
EndOfTrack ==
  /\ mixer = "playing"
  /\ mixer' = "idle"
  /\ plast' = NoCall
  /\ UNCHANGED <<tracks, current_track_index, shuffle_mode, repeat_mode,
                 shuffled_indices, is_playing, is_paused, current_position,
                 current_track_loaded_path>>
  /\ UNCHANGED playlist_history

\* A Playlist call made on player.playlist: the Player is left as it is.
OnPlaylist(s) ==
  /\ Install(s)
  /\ plast' = NoCall
  /\ UNCHANGED <<is_playing, is_paused, current_position,
                 current_track_loaded_path, mixer>>
  /\ UNCHANGED playlist_history

PlaylistAddTrack ==
  \E track_path \in Ids : OnPlaylist(add_track(Self, track_path))

PlaylistRemoveTrack ==
  \E track_path \in Ids : OnPlaylist(remove_track(Self, track_path))

PlaylistToggleShuffle ==
  \E s2 \in {toggle_shuffle(Self, p) : p \in Perms(Len(tracks))} :
    OnPlaylist(s2)

PlaylistSetRepeatMode ==
  \E mode \in ModeInputs : OnPlaylist(set_repeat_mode(Self, mode))

PlayerNext ==
  \/ Play
  \/ Pause
  \/ Stop
  \/ PlayerNextTrack
  \/ PrevTrack
  \/ Seek
  \/ EndOfTrack
  \/ PlaylistAddTrack
  \/ PlaylistRemoveTrack
  \/ PlaylistToggleShuffle
  \/ PlaylistSetRepeatMode

PlayerSpec == Init /\ [][PlayerNext]_vars

\* ----------------------------------------------------------- claims
\* Whether c is a position of the sequence list (0-based).
ValidIndex(c, list) == 0 <= c /\ c < Len(list)

\* The distinct elements of a sequence.
Elements(list) == {list[i] : i \in 1..Len(list)}

\* C1: after any sequence of calls the cursor is -1 or a valid index into
\* the active index space: shuffled_indices when shuffle is on, tracks when
\* it is off.
C1_CursorInActiveSpace ==
  \/ current_track_index = -1
  \/ ValidIndex(current_track_index,
                IF shuffle_mode THEN shuffled_indices ELSE tracks)

\* C1 witness: next_track has advanced the cursor to the last position of
\* the permutation.
C1_Witness ==
  /\ last.op = "next_track"
  /\ shuffle_mode
  /\ Len(shuffled_indices) >= 2
  /\ current_track_index = Len(shuffled_indices) - 1

\* C2: whenever shuffle is on and the queue has N tracks, shuffled_indices
\* has length N and holds each of 0..N-1 exactly once.
C2_ShuffleIsPermutation ==
  shuffle_mode =>
    /\ Len(shuffled_indices) = Len(tracks)
    /\ \A k \in 0..(Len(tracks) - 1) :
         Cardinality({i \in 1..Len(shuffled_indices) :
                        shuffled_indices[i] = k}) = 1

\* C2 witness: next_track has wrapped forward under repeat 'all' and the
\* permutation it left differs from the one before the call.
C2_Witness ==
  /\ last.op = "next_track"
  /\ last.pre.shuffle_mode
  /\ last.pre.repeat_mode = "all"
  /\ last.pre.current_track_index = Len(last.pre.shuffled_indices) - 1
  /\ shuffle_mode
  /\ current_track_index = 0
  /\ shuffled_indices # last.pre.shuffled_indices

\* C3: whenever the queue is empty, the cursor is -1 and shuffled_indices is
\* empty.
C3_EmptyQueue ==
  tracks = <<>> => current_track_index = -1 /\ shuffled_indices = <<>>

\* C3 witness: remove_track has emptied a queue that was shuffled.
C3_Witness ==
  /\ last.op = "remove_track"
  /\ last.pre.shuffle_mode
  /\ last.pre.tracks # <<>>
  /\ tracks = <<>>

\* C4: whenever shuffle is off, shuffled_indices is empty.
C4_ShuffleOffNoPermutation ==
  ~shuffle_mode => shuffled_indices = <<>>

\* C4 witness: toggle_shuffle has turned shuffle off.
C4_Witness ==
  /\ last.op = "toggle_shuffle"
  /\ last.pre.shuffle_mode
  /\ last.pre.shuffled_indices # <<>>
  /\ ~shuffle_mode

\* C5: the queue never holds the same identifier twice.
C5_Uniqueness ==
  \A i, j \in 1..Len(tracks) : tracks[i] = tracks[j] => i = j

\* C5 witness: add_track was called with an identifier the queue held.
C5_Witness ==
  /\ last.op = "add_track"
  /\ Contains(last.pre.tracks, last.arg)
  /\ Len(tracks) >= 2

\* C6: add_track or remove_track called while shuffle is on, for any
\* identifier, leaves shuffle off and shuffled_indices empty.
C6_MutationDisablesShuffle ==
  (last.op \in {"add_track", "remove_track"} /\ last.pre.shuffle_mode) =>
    (~shuffle_mode /\ shuffled_indices = <<>>)

\* C6 witness: add_track was called while shuffle was on with an identifier
\* the queue held already.
C6_Witness ==
  /\ last.op = "add_track"
  /\ last.pre.shuffle_mode
  /\ Contains(last.pre.tracks, last.arg)
  /\ tracks = last.pre.tracks

\* C7: when get_current_track() returns a track t, remove_track(id) with
\* id # t leaves get_current_track() equal to t, the cursor being t's new
\* position in the queue.
C7_RemovalPreservesCurrent ==
  (/\ last.op = "remove_track"
   /\ get_current_track(last.pre) # None
   /\ last.arg # get_current_track(last.pre)) =>
    /\ get_current_track(Self) = get_current_track(last.pre)
    /\ ~shuffle_mode
    /\ ValidIndex(current_track_index, tracks)
    /\ tracks[current_track_index + 1] = get_current_track(last.pre)

\* C7 witness: a track before the current one was removed with shuffle off,
\* so the cursor had to move to follow the current track.
C7_Witness ==
  /\ last.op = "remove_track"
  /\ ~last.pre.shuffle_mode
  /\ get_current_track(last.pre) # None
  /\ last.arg # get_current_track(last.pre)
  /\ Contains(last.pre.tracks, last.arg)
  /\ current_track_index = last.pre.current_track_index - 1

\* C8: toggle_shuffle turning shuffle off while the cursor is a valid
\* permutation position p sets the cursor to shuffled_indices[p], and
\* get_current_track() is the same before and after.
C8_ShuffleOffKeepsCurrent ==
  (/\ last.op = "toggle_shuffle"
   /\ last.pre.shuffle_mode
   /\ ValidIndex(last.pre.current_track_index, last.pre.shuffled_indices)) =>
    /\ ~shuffle_mode
    /\ current_track_index =
         last.pre.shuffled_indices[last.pre.current_track_index + 1]
    /\ get_current_track(Self) = get_current_track(last.pre)
    /\ get_current_track(Self) # None

\* C8 witness: shuffle was turned off at a permutation position whose value
\* is another queue index.
C8_Witness ==
  /\ last.op = "toggle_shuffle"
  /\ last.pre.shuffle_mode
  /\ ValidIndex(last.pre.current_track_index, last.pre.shuffled_indices)
  /\ current_track_index # last.pre.current_track_index

\* C9 as claimed: toggle_shuffle called twice in a row from shuffle off on a
\* non-empty queue leaves the cursor equal to its value before the two calls.
C9_RoundTripRestoresCursor ==
  (since_on.stage = "off" /\ Len(since_on.played) = 1) =>
    current_track_index = since_on.cursor0

\* C9 as amended: toggle_shuffle called twice in a row from shuffle off on a
\* non-empty queue leaves the cursor on the queue index at the head of the
\* permutation the first call drew, that is on the track get_current_track()
\* returned while shuffle was on.
C9_RoundTripKeepsShuffledHead ==
  (since_on.stage = "off" /\ Len(since_on.played) = 1) =>
    /\ ~shuffle_mode
    /\ ValidIndex(current_track_index, tracks)
    /\ tracks[current_track_index + 1] = since_on.played[1]

\* C9 witness: the two toggles have run from a valid cursor and the cursor
\* has ended elsewhere.
C9_Witness ==
  /\ since_on.stage = "off"
  /\ Len(since_on.played) = 1
  /\ since_on.cursor0 # -1
  /\ current_track_index # since_on.cursor0

\* C10: with repeat 'none' and N tracks, right after shuffle is turned on,
\* get_current_track() and the N-1 next_track() calls that follow return N
\* tracks of the queue, pairwise different, and the call after them returns
\* None and sets the cursor to -1.
C10_NoRepeatCoverage ==
  (since_on.stage = "on" /\ repeat_mode = "none") =>
    LET N == Len(tracks)
        played == since_on.played
        first == 1..(IF Len(played) < N THEN Len(played) ELSE N)
    IN /\ \A i \in first : played[i] # None /\ Contains(tracks, played[i])
       /\ \A i, j \in first : played[i] = played[j] => i = j
       /\ Len(played) >= N => {played[i] : i \in first} = Elements(tracks)
       /\ Len(played) = N + 1 =>
            (played[N + 1] = None /\ current_track_index = -1)

\* C10 witness: a shuffled queue of at least two tracks was played to its
\* end under repeat 'none'.
C10_Witness ==
  /\ since_on.stage = "on"
  /\ repeat_mode = "none"
  /\ Len(tracks) >= 2
  /\ Len(since_on.played) = Len(tracks) + 1

\* The last call was next_track or previous_track.
LastIsNavigation == last.op \in {"next_track", "previous_track"}

\* C11 as claimed: with shuffle on and repeat 'none', once next_track() has
\* returned None at the end of the permutation, every next_track() call that
\* follows with no other call in between returns None and leaves the cursor
\* at -1.
C11_ExhaustedShuffleStaysNone ==
  (since_on.stage = "on" /\ repeat_mode = "none") =>
    LET played == since_on.played IN
    /\ \A i \in 2..(Len(played) - 1) :
         played[i] = None => played[i + 1] = None
    /\ (\E i \in 2..Len(played) : played[i] = None) =>
         current_track_index = -1

\* C12: with shuffle off, repeat 'none' and a non-empty queue, at cursor -1
\* next_track() and previous_track() return None and leave the cursor at -1.
C12_LinearDeadEnd ==
  (/\ LastIsNavigation
   /\ ~last.pre.shuffle_mode
   /\ last.pre.repeat_mode = "none"
   /\ last.pre.tracks # <<>>
   /\ last.pre.current_track_index = -1) =>
    /\ last.ret = None
    /\ current_track_index = -1
    /\ Self = last.pre

\* C12 witness: previous_track() was called at the dead end of a queue of
\* at least two tracks.
C12_Witness ==
  /\ last.op = "previous_track"
  /\ ~last.pre.shuffle_mode
  /\ last.pre.repeat_mode = "none"
  /\ Len(last.pre.tracks) >= 2
  /\ last.pre.current_track_index = -1
  /\ last.ret = None

\* C13: with shuffle off and repeat 'none', from a valid cursor i in a queue
\* of N tracks next_track() returns tracks[i+1] and sets the cursor to i+1
\* when i+1 < N, previous_track() returns tracks[i-1] and sets the cursor to
\* i-1 when i > 0; otherwise each returns None and sets the cursor to -1.
C13_LinearStep ==
  (/\ LastIsNavigation
   /\ ~last.pre.shuffle_mode
   /\ last.pre.repeat_mode = "none"
   /\ ValidIndex(last.pre.current_track_index, last.pre.tracks)) =>
    LET i == last.pre.current_track_index
        N == Len(last.pre.tracks)
        target == IF last.op = "next_track" THEN i + 1 ELSE i - 1
    IN /\ Self = [last.pre EXCEPT !.current_track_index =
                                     IF 0 <= target /\ target < N
                                     THEN target ELSE -1]
       /\ last.ret = IF 0 <= target /\ target < N
                     THEN last.pre.tracks[target + 1] ELSE None

\* C13 witness: next_track() has stepped from the first to the second track.
C13_Witness ==
  /\ last.op = "next_track"
  /\ ~last.pre.shuffle_mode
  /\ last.pre.repeat_mode = "none"
  /\ last.pre.current_track_index = 0
  /\ current_track_index = 1
  /\ last.ret = tracks[2]

\* C14: with repeat 'one' and a valid cursor, in either shuffle mode,
\* next_track() and previous_track() return the track get_current_track()
\* reported before the call and change neither the cursor nor the
\* permutation (nor anything else), so any sequence of them stays there.
C14_RepeatOnePins ==
  (/\ LastIsNavigation
   /\ last.pre.repeat_mode = "one"
   /\ ValidIndex(last.pre.current_track_index,
                 IF last.pre.shuffle_mode THEN last.pre.shuffled_indices
                 ELSE last.pre.tracks)) =>
    /\ last.ret # None
    /\ last.ret = get_current_track(last.pre)
    /\ Self = last.pre

\* C14 witness: previous_track() was called under repeat 'one' with shuffle
\* on at a permutation position other than the head.
C14_Witness ==
  /\ last.op = "previous_track"
  /\ last.pre.repeat_mode = "one"
  /\ last.pre.shuffle_mode
  /\ last.pre.current_track_index >= 1
  /\ last.ret = get_current_track(Self)

\* C15: with repeat 'one', a non-empty queue and cursor -1, next_track() and
\* previous_track() both set the cursor to 0 and return the track at
\* position 0 of the active order.
C15_RepeatOneSelectsFirst ==
  (/\ LastIsNavigation
   /\ last.pre.repeat_mode = "one"
   /\ last.pre.tracks # <<>>
   /\ last.pre.current_track_index = -1) =>
    /\ Self = [last.pre EXCEPT !.current_track_index = 0]
    /\ last.ret = IF shuffle_mode
                  THEN tracks[shuffled_indices[1] + 1]
                  ELSE tracks[1]

\* C15 witness: previous_track() selected the first of at least two tracks.
C15_Witness ==
  /\ last.op = "previous_track"
  /\ last.pre.repeat_mode = "one"
  /\ Len(last.pre.tracks) >= 2
  /\ last.pre.current_track_index = -1
  /\ current_track_index = 0

\* C16: with shuffle off and repeat 'all' on N tracks, next_track() at cursor
\* N-1 sets the cursor to 0 and returns tracks[0], previous_track() at cursor
\* 0 sets the cursor to N-1 and returns tracks[N-1].
C16_LinearWrap ==
  (/\ LastIsNavigation
   /\ ~last.pre.shuffle_mode
   /\ last.pre.repeat_mode = "all"
   /\ last.pre.tracks # <<>>) =>
    LET N == Len(last.pre.tracks) IN
    /\ (last.op = "next_track" /\ last.pre.current_track_index = N - 1) =>
         /\ Self = [last.pre EXCEPT !.current_track_index = 0]
         /\ last.ret = tracks[1]
    /\ (last.op = "previous_track" /\ last.pre.current_track_index = 0) =>
         /\ Self = [last.pre EXCEPT !.current_track_index = N - 1]
         /\ last.ret = tracks[N]

\* C16 witness: previous_track() has wrapped from the head to the tail of a
\* queue of at least two tracks.
C16_Witness ==
  /\ last.op = "previous_track"
  /\ ~last.pre.shuffle_mode
  /\ last.pre.repeat_mode = "all"
  /\ Len(tracks) >= 2
  /\ last.pre.current_track_index = 0
  /\ current_track_index = Len(tracks) - 1

\* C17: with shuffle on and repeat 'all' on N tracks, next_track() called at
\* the last permutation position returns a track and sets the cursor to 0,
\* and that track and the tracks the following N-1 next_track() calls return
\* are every track of the queue exactly once.
C17_LapIsFullCover ==
  lap # <<>> =>
    /\ current_track_index = Len(lap) - 1
    /\ Len(lap) <= Len(tracks)
    /\ \A i \in 1..Len(lap) : lap[i] # None /\ Contains(tracks, lap[i])
    /\ \A i, j \in 1..Len(lap) : lap[i] = lap[j] => i = j
    /\ Len(lap) = Len(tracks) => Elements(lap) = Elements(tracks)

\* C17 witness: a full lap of at least two tracks was played after a wrap.
C17_Witness ==
  /\ Len(tracks) >= 2
  /\ Len(lap) = Len(tracks)
  /\ last.op = "next_track"
  /\ shuffle_mode
  /\ repeat_mode = "all"

\* C18: with shuffle on, previous_track() leaves shuffled_indices unchanged,
\* the backward wrap under repeat 'all' included; within shuffle mode only
\* next_track() wrapping forward under repeat 'all' changes it.
C18_PreviousKeepsPermutation ==
  /\ (last.op = "previous_track" /\ last.pre.shuffle_mode) =>
       (shuffle_mode /\ shuffled_indices = last.pre.shuffled_indices)
  /\ (/\ last.pre.shuffle_mode
      /\ shuffle_mode
      /\ shuffled_indices # last.pre.shuffled_indices) =>
       (last.op = "next_track" /\ AtForwardWrap(last.pre))

\* C18 witness: previous_track() has wrapped backward from position 0 to the
\* last position of a permutation of at least two tracks.
C18_Witness ==
  /\ last.op = "previous_track"
  /\ last.pre.shuffle_mode
  /\ last.pre.repeat_mode = "all"
  /\ last.pre.current_track_index = 0
  /\ Len(shuffled_indices) >= 2
  /\ current_track_index = Len(shuffled_indices) - 1

\* C19: set_current_track_by_path(id) with id in the queue returns True and
\* get_current_track() then returns id; with shuffle on the cursor is the
\* permutation position holding id's queue index, with shuffle off it is the
\* queue index, and nothing else changes.
C19_SetCurrentPresent ==
  (/\ last.op = "set_current_track_by_path"
   /\ Contains(last.pre.tracks, last.arg)) =>
    LET qi == index(last.pre.tracks, last.arg) IN
    /\ last.ret = TRUE
    /\ get_current_track(Self) = last.arg
    /\ Self = [last.pre EXCEPT !.current_track_index =
                                  IF last.pre.shuffle_mode
                                  THEN index(last.pre.shuffled_indices, qi)
                                  ELSE qi]

\* C19 witness: with shuffle on, a track was selected whose permutation
\* position is not its queue index.
C19_Witness ==
  /\ last.op = "set_current_track_by_path"
  /\ Contains(last.pre.tracks, last.arg)
  /\ last.pre.shuffle_mode
  /\ current_track_index # last.pre.current_track_index
  /\ current_track_index # index(tracks, last.arg)

\* C20: set_current_track_by_path(id) with id not in the queue returns False
\* and leaves the queue, the cursor, the shuffle flag, the permutation and
\* the repeat policy unchanged.
C20_SetCurrentAbsent ==
  (/\ last.op = "set_current_track_by_path"
   /\ ~Contains(last.pre.tracks, last.arg)) =>
    /\ last.ret = FALSE
    /\ Self = last.pre

\* C20 witness: an absent identifier was looked up while a track was current.
C20_Witness ==
  /\ last.op = "set_current_track_by_path"
  /\ ~Contains(last.pre.tracks, last.arg)
  /\ get_current_track(last.pre) # None
  /\ last.ret = FALSE

\* C21 as stated: add_track(id) with id already in the queue changes neither
\* the queue, nor the cursor, nor the shuffle flag, nor the permutation.
C21_AddPresentIsNoOp ==
  (/\ last.op = "add_track"
   /\ Contains(last.pre.tracks, last.arg)) =>
    /\ tracks = last.pre.tracks
    /\ current_track_index = last.pre.current_track_index
    /\ shuffle_mode = last.pre.shuffle_mode
    /\ shuffled_indices = last.pre.shuffled_indices

\* C21 amended: add_track(id) with id already in the queue never changes the
\* queue or the repeat policy; with shuffle off it changes nothing at all,
\* and with shuffle on it turns shuffle off: the flag is cleared, the
\* permutation emptied, and the cursor becomes the queue index of the track
\* that was current (0 when no track was current).
C21_AddPresentOnlyLeavesShuffle ==
  (/\ last.op = "add_track"
   /\ Contains(last.pre.tracks, last.arg)) =>
    /\ tracks = last.pre.tracks
    /\ repeat_mode = last.pre.repeat_mode
    /\ ~shuffle_mode
    /\ shuffled_indices = <<>>
    /\ ~last.pre.shuffle_mode => Self = last.pre
    /\ last.pre.shuffle_mode =>
         LET held == get_current_track(last.pre) IN
         current_track_index =
           IF held = None THEN 0 ELSE index(tracks, held)

\* C21 witness: a track already in the queue was added while shuffle was on
\* and the cursor did not designate the first track of the queue.
C21_Witness ==
  /\ last.op = "add_track"
  /\ Contains(last.pre.tracks, last.arg)
  /\ last.pre.shuffle_mode
  /\ current_track_index # 0
  /\ current_track_index # last.pre.current_track_index

\* C22: add_track(id) of an id not in the queue, with shuffle off, appends id
\* at the end and keeps every other track at its position; the cursor
\* becomes 0 when the queue was empty and is unchanged otherwise (it stays
\* -1 on a non-empty queue), and nothing else changes.
C22_AddNewAppends ==
  (/\ last.op = "add_track"
   /\ ~Contains(last.pre.tracks, last.arg)
   /\ ~last.pre.shuffle_mode) =>
    /\ tracks = Append(last.pre.tracks, last.arg)
    /\ current_track_index =
         IF last.pre.tracks = <<>> THEN 0
         ELSE last.pre.current_track_index
    /\ Self = [last.pre EXCEPT !.tracks = tracks,
                               !.current_track_index = current_track_index]

\* C22 witness: a new track was appended to a non-empty queue on which no
\* track was current, and still none is.
C22_Witness ==
  /\ last.op = "add_track"
  /\ ~Contains(last.pre.tracks, last.arg)
  /\ ~last.pre.shuffle_mode
  /\ last.pre.tracks # <<>>
  /\ last.pre.current_track_index = -1
  /\ current_track_index = -1
  /\ Len(tracks) = Len(last.pre.tracks) + 1

\* C23: toggle_shuffle() called with shuffle off: on a non-empty queue it
\* turns shuffle on, makes the permutation an arrangement of all the queue
\* indices and sets the cursor to 0 whatever it was; on an empty queue it
\* changes nothing (shuffle off, cursor -1, permutation empty).
C23_ToggleOn ==
  (/\ last.op = "toggle_shuffle"
   /\ ~last.pre.shuffle_mode) =>
    IF last.pre.tracks # <<>>
    THEN /\ shuffle_mode
         /\ Len(shuffled_indices) = Len(tracks)
         /\ Elements(shuffled_indices) = 0..(Len(tracks) - 1)
         /\ current_track_index = 0
         /\ tracks = last.pre.tracks
         /\ repeat_mode = last.pre.repeat_mode
    ELSE /\ Self = last.pre
         /\ ~shuffle_mode
         /\ current_track_index = -1
         /\ shuffled_indices = <<>>

\* C23 witness: shuffle was turned on over a queue of several tracks on
\* which no track was current.
C23_Witness ==
  /\ last.op = "toggle_shuffle"
  /\ ~last.pre.shuffle_mode
  /\ Len(last.pre.tracks) > 1
  /\ last.pre.current_track_index = -1
  /\ shuffle_mode
  /\ current_track_index = 0

\* C24: toggle_shuffle() called with shuffle on, the cursor at -1 and a
\* non-empty queue sets the cursor to 0: get_current_track() returned None
\* before the call and returns the first track of the queue after it.
C24_ToggleOffFromUnset ==
  (/\ last.op = "toggle_shuffle"
   /\ last.pre.shuffle_mode
   /\ last.pre.current_track_index = -1
   /\ last.pre.tracks # <<>>) =>
    /\ ~shuffle_mode
    /\ current_track_index = 0
    /\ get_current_track(last.pre) = None
    /\ get_current_track(Self) = tracks[1]

\* C24 witness: shuffle was turned off over several tracks while the cursor
\* was -1.
C24_Witness ==
  /\ last.op = "toggle_shuffle"
  /\ last.pre.shuffle_mode
  /\ last.pre.current_track_index = -1
  /\ Len(last.pre.tracks) > 1
  /\ ~shuffle_mode

\* C25: toggle_shuffle, set_repeat_mode, next_track, previous_track,
\* get_current_track and set_current_track_by_path leave the queue as it
\* was, contents and order; get_playlist_tracks returns the queue in its
\* insertion order, whatever the permutation is, and changes nothing.
C25_QueueOrderUntouched ==
  /\ last.op \in {"toggle_shuffle", "set_repeat_mode", "next_track",
                  "previous_track", "get_current_track",
                  "set_current_track_by_path", "get_playlist_tracks"}
       => tracks = last.pre.tracks
  /\ last.op = "get_playlist_tracks" =>
       /\ last.ret = last.pre.tracks
       /\ Self = last.pre

\* C25 witness: the tracks were listed while shuffle was on with a
\* permutation that is not the insertion order.
C25_Witness ==
  /\ last.op = "get_playlist_tracks"
  /\ shuffle_mode
  /\ Len(tracks) > 1
  /\ shuffled_indices # range(Len(tracks))
  /\ last.ret = tracks

\* C26: set_repeat_mode(mode) sets the policy to mode when mode is 'none',
\* 'one' or 'all' and to 'none' otherwise, and changes nothing else; the
\* policy is always one of the three.
C26_RepeatModeCoerced ==
  /\ repeat_mode \in Modes
  /\ last.op = "set_repeat_mode" =>
       /\ repeat_mode = IF last.arg \in Modes THEN last.arg ELSE "none"
       /\ Self = [last.pre EXCEPT !.repeat_mode = repeat_mode]

\* C26 witness: an invalid mode was given while the policy was not 'none'.
C26_Witness ==
  /\ last.op = "set_repeat_mode"
  /\ last.arg \notin Modes
  /\ last.pre.repeat_mode # "none"
  /\ repeat_mode = "none"

\* ---------------------------------------------------- Player claims
\* The last Player call was next_track() or prev_track().
LastIsSkip == plast.op \in {"next_track", "prev_track"}

\* The positions of the log of the last Player call holding the command cmd.
Issued(cmd) == {i \in 1..Len(plast.log) : plast.log[i].cmd = cmd}

\* The last Player call loaded the track x, and every load it made succeeded.
LoadedOk(x) ==
  /\ \E i \in Issued("load") : plast.log[i].arg = x
  /\ \A i \in Issued("load") : plast.log[i].ok

\* The last Player call started or resumed the stream.
PlayIssued == Issued("play") # {} \/ Issued("unpause") # {}

\* C27: when Player.next_track() or Player.prev_track() is called while
\* is_playing is True and is_paused False, and the playlist returns a track
\* that loads successfully, the call ends with a play command: is_playing
\* is True, is_paused False, the stream plays, and
\* current_track_loaded_path is the returned track, which is also what
\* get_current_track() returns.
C27_PlayingSkipPlays ==
  (/\ LastIsSkip
   /\ plast.was_playing /\ ~plast.was_paused
   /\ plast.ret # None
   /\ LoadedOk(plast.ret)) =>
    /\ is_playing /\ ~is_paused
    /\ Issued("play") # {}
    /\ mixer = "playing"
    /\ current_track_loaded_path = plast.ret
    /\ current_track_loaded_path = get_current_track(Self)

\* C27 witness: a playing session skipped to a track that loaded, with
\* several tracks in the queue.
C27_Witness ==
  /\ LastIsSkip
  /\ plast.was_playing /\ ~plast.was_paused
  /\ plast.ret # None
  /\ LoadedOk(plast.ret)
  /\ Len(tracks) > 1
  /\ is_playing

\* C28: when Player.next_track() or Player.prev_track() is called while
\* is_paused is True and the playlist returns a track, the call ends with
\* is_paused True and is_playing False, the returned track loaded, and no
\* play command issued.
C28_PausedSkipStaysPaused ==
  (/\ LastIsSkip
   /\ plast.was_paused
   /\ plast.ret # None) =>
    /\ is_paused /\ ~is_playing
    /\ current_track_loaded_path = plast.ret
    /\ ~PlayIssued

\* C29: when Player.next_track() or Player.prev_track() is called while
\* is_playing and is_paused are both False, they are both False after the
\* call and no play command was issued, whatever the playlist returned and
\* whether the load succeeded or not.
C29_StoppedSkipStaysStopped ==
  (/\ LastIsSkip
   /\ ~plast.was_playing /\ ~plast.was_paused) =>
    /\ ~is_playing /\ ~is_paused
    /\ ~PlayIssued

\* C29 witness: a stopped session skipped to a track that loaded.
C29_Witness ==
  /\ LastIsSkip
  /\ ~plast.was_playing /\ ~plast.was_paused
  /\ plast.ret # None
  /\ LoadedOk(plast.ret)
  /\ current_track_loaded_path = plast.ret
  /\ ~is_playing

\* C30: Player.play(id) with id in the queue and a load that succeeds ends
\* with is_playing True and is_paused False, get_current_track() returning
\* id and current_track_loaded_path equal to id.
C30_PlayPathPlays ==
  (/\ plast.op = "play"
   /\ plast.arg # None
   /\ Contains(tracks, plast.arg)
   /\ Issued("load") # {}
   /\ \A i \in Issued("load") : plast.log[i].ok) =>
    /\ is_playing /\ ~is_paused
    /\ get_current_track(Self) = plast.arg
    /\ current_track_loaded_path = plast.arg

\* ------------------------------------------- Playlist claims, continued
\* The smaller and the larger of two integers.
Min(a, b) == IF a <= b THEN a ELSE b
Max(a, b) == IF a >= b THEN a ELSE b

C32_RepeatAllFromUnset ==
  (/\ LastIsNavigation
   /\ last.pre.repeat_mode = "all"
   /\ last.pre.tracks # <<>>
   /\ last.pre.current_track_index = -1) =>
    /\ current_track_index =
         IF last.op = "next_track" THEN 0 ELSE Len(tracks) - 1
    /\ shuffle_mode = last.pre.shuffle_mode
    /\ last.ret # None
    /\ last.ret =
         IF shuffle_mode
         THEN tracks[shuffled_indices[current_track_index + 1] + 1]
         ELSE tracks[current_track_index + 1]

\* C32 witness: previous_track() was called with shuffle on, repeat 'all',
\* several tracks and the cursor at -1.
C32_Witness ==
  /\ last.op = "previous_track"
  /\ last.pre.repeat_mode = "all"
  /\ last.pre.shuffle_mode
  /\ Len(last.pre.tracks) > 1
  /\ last.pre.current_track_index = -1
  /\ current_track_index = Len(tracks) - 1

\* C33: when next_track() or previous_track() is entered under repeat
\* 'none' or 'all' with shuffle_mode True, shuffled_indices empty and a
\* non-empty queue, it rebuilds the permutation: on return shuffle_mode is
\* still True, shuffled_indices is an arrangement of all the queue indices,
\* and a track is returned.
C33_LazyRebuild ==
  (/\ LastIsNavigation
   /\ last.pre.repeat_mode \in {"none", "all"}
   /\ last.pre.shuffle_mode
   /\ last.pre.shuffled_indices = <<>>
   /\ last.pre.tracks # <<>>) =>
    /\ shuffle_mode
    /\ Len(shuffled_indices) = Len(tracks)
    /\ Elements(shuffled_indices) = 0..(Len(tracks) - 1)
    /\ last.ret # None

\* ------------------------------------------- Player claims, continued
\* C34: a Player.next_track() or Player.prev_track() call to which the
\* playlist returns None ends with is_playing False, is_paused False and
\* current_position 0, whatever the transport was, and leaves
\* current_track_loaded_path as it was.
C34_SkipToNoneStops ==
  [][(LastIsSkip' /\ plast'.ret = None) =>
       /\ ~is_playing' /\ ~is_paused'
       /\ current_position' = 0
       /\ current_track_loaded_path' = current_track_loaded_path]_vars

\* C34 witness: a playing session with a track loaded skipped past an end
\* of a non-empty queue and is stopped, the path still loaded.
C34_Witness ==
  /\ LastIsSkip
  /\ plast.ret = None
  /\ plast.was_playing
  /\ tracks # <<>>
  /\ current_track_loaded_path # None
  /\ ~is_playing /\ ~is_paused

\* C39: is_playing and is_paused are never both True, and whenever one of
\* them is True current_track_loaded_path is not None.
C39_TransportFlags ==
  /\ ~(is_playing /\ is_paused)
  /\ (is_playing \/ is_paused) => current_track_loaded_path # None

\* C39 witness: a paused session made a call in which a load failed, and
\* ended with both flags False and no path loaded.
C39_Witness ==
  /\ plast.was_paused
  /\ \E i \in Issued("load") : ~plast.log[i].ok
  /\ current_track_loaded_path = None
  /\ ~is_playing /\ ~is_paused

\* --------------------------------------------------- next_track() forever
\* The caller that, once the queue is non-empty and repeat is 'all', calls
\* next_track() and from then on nothing else.  run.returned keeps the values
\* of the latest 2N-1 calls of the run, N the length of the queue.
RepeatNext ==
  /\ tracks # <<>>
  /\ repeat_mode = "all"
  /\ \E r \in {next_track(Self, p) : p \in Perms(Len(tracks))} :
       /\ Install(r.s)
       /\ last' = Call("next_track", None, r.ret)
       /\ run' = [on |-> TRUE, tick |-> 1 - run.tick,
                  returned |-> latest(Append(run.returned, r.ret),
                                      2 * Len(tracks) - 1)]
  /\ since_on' = Blank
  /\ lap' = <<>>
  /\ UNCHANGED player_vars

\* The calls that bring the Playlist to the state the run starts from, made
\* while no run is in progress.  set_current_track_by_path() and
\* get_playlist_tracks() are left out: they reach no state of the Playlist
\* that these do not.
Setup ==
  /\ ~run.on
  /\ \/ AddTrack
     \/ RemoveTrack
     \/ ToggleShuffle
     \/ SetRepeatMode
     \/ NextTrack
     \/ PreviousTrack
     \/ GetCurrentTrack

LoopNext ==
  \/ Setup
  \/ RepeatNext

\* The caller keeps calling: a run in progress never stops.  Every call of
\* the run changes run, so fairness is stated on that variable.
LoopSpec == Init /\ [][LoopNext]_vars /\ WF_run(RepeatNext)

C36_RepeatNeverNone ==
  (/\ LastIsNavigation
   /\ last.pre.tracks # <<>>
   /\ last.pre.repeat_mode \in {"one", "all"}) =>
     /\ last.ret # None
     /\ Contains(tracks, last.ret)
     /\ ValidIndex(current_track_index,
                   IF shuffle_mode THEN shuffled_indices ELSE tracks)
     /\ get_current_track(Self) = last.ret

\* C36 witness: previous_track() was called with repeat 'all', shuffle on
\* and the cursor unset, and returned a track.
C36_Witness ==
  /\ last.op = "previous_track"
  /\ last.pre.repeat_mode = "all"
  /\ last.pre.shuffle_mode
  /\ last.pre.current_track_index = -1
  /\ Len(last.pre.tracks) > 1
  /\ last.ret # None
  /\ current_track_index # -1

\* C37: where get_current_track() returns a track t, add_track(x) for any x,
\* present or not, with shuffle on or off, leaves get_current_track()
\* returning t.
C37_AddKeepsCurrent ==
  (/\ last.op = "add_track"
   /\ get_current_track(last.pre) # None) =>
     get_current_track(Self) = get_current_track(last.pre)

\* C37 witness: add_track() was called with shuffle on while the current
\* track was not the first of the queue; shuffle went off and the current
\* track is the same.
C37_Witness ==
  /\ last.op = "add_track"
  /\ last.pre.shuffle_mode
  /\ get_current_track(last.pre) # None
  /\ get_current_track(last.pre) # last.pre.tracks[1]
  /\ ~shuffle_mode
  /\ get_current_track(Self) = get_current_track(last.pre)

\* The states in which next_track() and previous_track() take the lazy
\* rebuild (lines 164-171, 230-234).
lazy_rebuild_taken(s) ==
  /\ s.tracks # <<>>
  /\ s.repeat_mode # "one"
  /\ s.shuffle_mode
  /\ s.shuffled_indices = <<>>

\* The states in which set_current_track_by_path(track_path) rebuilds the
\* permutation (lines 284-290).
rebuild_taken(s, track_path) ==
  /\ Contains(s.tracks, track_path)
  /\ s.shuffle_mode
  /\ s.shuffled_indices = <<>>
  /\ s.tracks # <<>>

\* The states in which set_current_track_by_path(track_path) falls back to
\* turning shuffle off: the permutation it searches does not hold the index
\* of the track (lines 292-303).
fallback_taken(s, track_path) ==
  /\ Contains(s.tracks, track_path)
  /\ s.shuffle_mode
  /\ s.shuffled_indices # <<>>
  /\ ~Contains(s.shuffled_indices, index(s.tracks, track_path))

\* C40: in every state the methods can reach, the shuffle flag is on only
\* with a non-empty queue and a non-empty shuffled_indices, and none of the
\* defensive branches would be taken: neither the lazy rebuild of
\* next_track/previous_track nor the rebuild or the shuffle-off fallback of
\* set_current_track_by_path, for any identifier.
C40_DefensiveBranchesDead ==
  /\ shuffle_mode => (tracks # <<>> /\ shuffled_indices # <<>>)
  /\ ~lazy_rebuild_taken(Self)
  /\ \A x \in Ids : ~rebuild_taken(Self, x) /\ ~fallback_taken(Self, x)

\* C40 witness: set_current_track_by_path() was called with shuffle on for
\* a track of a queue of several and shuffle is still on, after a
\* navigation-ready state: the cursor is the position of the track in the
\* permutation.
C40_Witness ==
  /\ last.op = "set_current_track_by_path"
  /\ last.pre.shuffle_mode
  /\ Len(tracks) > 1
  /\ last.ret = TRUE
  /\ shuffle_mode
  /\ shuffled_indices = last.pre.shuffled_indices
  /\ get_current_track(Self) = last.arg

\* C38: with repeat 'all' and a non-empty queue, when next_track() is called
\* forever with no other call in between, every track of the queue is
\* returned again and again: each track is among the values of any 2N-1
\* consecutive calls of the run, the calls never stop (run.tick takes both
\* its values infinitely often), and each track is the value of the latest
\* call infinitely often, with shuffle on or off.  A run once begun stays in
\* progress over the same queue, so "infinitely often while the run is in
\* progress" is written []<>(run.on => ...).
C38_NextForeverReturnsAll ==
  /\ [](run.on /\ Len(run.returned) = 2 * Len(tracks) - 1 =>
          Elements(tracks) \subseteq Elements(run.returned))
  /\ \A b \in {0, 1} : []<>(run.on => run.tick = b)
  /\ \A x \in Ids :
       []<>(run.on /\ Contains(tracks, x) =>
              IF last.op = "next_track" THEN last.ret = x ELSE FALSE)

\* C38 witness: a run with shuffle on over a queue of several tracks has
\* made 2N-1 calls, went through a reshuffle on the way, and every track is
\* among the values returned.
C38_Witness ==
  /\ run.on
  /\ shuffle_mode
  /\ Len(tracks) > 1
  /\ Len(run.returned) = 2 * Len(tracks) - 1
  /\ \E i \in 1..(Len(run.returned) - 1) :
       run.returned[i] = run.returned[i + 1]
  /\ Elements(tracks) \subseteq Elements(run.returned)

====
